---- MODULE Spec2Model ----
(***************************************************************************)
(* The full fine-tuning script finetune/full.py: setup/main/fit, the       *)
(* resumable iteration and checkpointing state machine, argument           *)
(* validation, and the files written to io.out_dir; the data modules       *)
(* (Deita, LIMA, TinyStories) and their format_dataset; the checkpoint     *)
(* downloader scripts/download.py; and fit run on two ranks.               *)
(***************************************************************************)
EXTENDS Integers, Sequences, FiniteSets, TLC

\* ---- bounds of the model ------------------------------------------------
MaxAccum == 2
MaxLen == 3
MaxEpochs == 2
MaxSteps == 2
MaxInterval == 2
MaxValLen == 2
MaxEvalIters == 3
MaxItems == 3
MaxMsgs == 4
MaxTokens == 3
MaxBatch == 2
MaxSeq == 2

\* Python's None, for the optional integer arguments
NoneVal == -1

VARIABLES
    pc,              \* position of the process in setup/main/fit
    args,            \* io / train / eval arguments and the dataloader lengths
    resume_arg,      \* the `resume` argument the process was started with
    resume,          \* main's `resume`: False, True, or a path
    state,           \* main's `state` dict
    train_iterator,  \* the CycleIterator of fit
    batch,           \* index of the batch last returned by next(train_iterator)
    is_accumulating, \* fit's local of the same name
    initial_iter,    \* fit's local of the same name
    out_dir,         \* the *.pth files of io.out_dir
    error,           \* the exception that ended the process, "" if none
    main_calls,      \* the calls main has made so far in this process
    grads,           \* micro-batches back-propagated and not yet applied
    n_next,          \* next(train_iterator) calls of this process
    n_val,           \* validate calls of this process that returned
    last_val,        \* iter_num and eval.max_iters of the latest validate call
    writes,          \* names of the files this process has saved, in order
    n_iters,         \* loop-body executions of this process
    lr_max_steps,    \* main's local of the same name
    data,            \* a data module object (Deita, TinyStories)
    source,          \* what the dataset hub or the download holds for it
    loaders,         \* the batches of the train and validation dataloaders made from it
    call,            \* the latest format_dataset call: its arguments and its outcome
    dl,              \* a download_from_hub call: arguments, position, the hub and the directory
    mp               \* a multi-device run of fit: the shared inputs and each rank's position

vars == <<pc, args, resume_arg, resume, state, train_iterator, batch, is_accumulating, initial_iter,
          out_dir, error, main_calls, grads, n_next, n_val, last_val, writes,
          n_iters, lr_max_steps, data, source, loaders, call, dl, mp>>

trainVars == <<pc, args, resume_arg, resume, state, train_iterator, batch, is_accumulating,
               initial_iter, out_dir, error, main_calls, grads, n_next, n_val, last_val,
               writes, n_iters, lr_max_steps>>

dataVars == <<data, source, loaders>>

extVars == <<call, dl, mp>>

\* ---- helpers --------------------------------------------------------------
Opt(S) == {NoneVal} \cup S

\* Python's `x or float("inf")` compared with `v < ...`
LessThanOrInf(v, x) == IF x = NoneVal \/ x = 0 THEN TRUE ELSE v < x

Digit(d) == <<"0", "1", "2", "3", "4", "5", "6", "7", "8", "9">>[d + 1]

RECURSIVE Decimal(_)
Decimal(n) == IF n < 10 THEN <<Digit(n)>> ELSE Decimal(n \div 10) \o <<Digit(n % 10)>>

RECURSIVE ZeroPad(_, _)
ZeroPad(s, w) == IF Len(s) >= w THEN s ELSE ZeroPad(<<"0">> \o s, w)

\* f"{n:06d}"
Format06d(n) == ZeroPad(Decimal(n), 6)

\* f"step-{state['step_count']:06d}.pth"
StepName(step_count) == <<"s", "t", "e", "p", "-">> \o Format06d(step_count) \o <<".", "p", "t", "h">>

FinalName == <<"l", "i", "t", "_", "m", "o", "d", "e", "l", "_", "f", "i", "n", "e", "t", "u", "n", "e", "d", ".", "p", "t", "h">>

\* p.name.split("-")
RECURSIVE Split(_, _)
Split(s, sep) ==
    IF \E i \in 1..Len(s) : s[i] = sep
    THEN LET i == CHOOSE k \in 1..Len(s) : s[k] = sep /\ \A j \in 1..(k - 1) : s[j] # sep
         IN <<SubSeq(s, 1, i - 1)>> \o Split(SubSeq(s, i + 1, Len(s)), sep)
    ELSE <<s>>

DigitValue(c) == CHOOSE d \in 0..9 : Digit(d) = c

IsDigit(c) == \E d \in 0..9 : Digit(d) = c

\* the strings int() accepts, among the file names of out_dir
IsIntLiteral(s) == Len(s) > 0 /\ \A i \in 1..Len(s) : IsDigit(s[i])

RECURSIVE IntOf(_)
IntOf(s) == IF Len(s) = 0 THEN 0 ELSE 10 * IntOf(SubSeq(s, 1, Len(s) - 1)) + DigitValue(s[Len(s)])

\* key=(lambda p: int(p.name.split("-")[1])) : the exception it raises, or its value
ResumeKey(name) ==
    LET parts == Split(name, "-") IN
    IF Len(parts) < 2 THEN [err |-> "IndexError", val |-> 0]
    ELSE IF ~IsIntLiteral(parts[2]) THEN [err |-> "ValueError", val |-> 0]
    ELSE [err |-> "", val |-> IntOf(parts[2])]

\* ---- out_dir: a set of files, one per name -----------------------------------
Names(dir) == {f.name : f \in dir}

FileAt(dir, name) == CHOOSE f \in dir : f.name = name

\* fabric.save(path, data)
Save(dir, name, content) == {f \in dir : f.name # name} \cup {[name |-> name, data |-> content]}

StateKeys == {"model", "optimizer", "scheduler", "iter_num", "step_count"}

\* ---- CycleIterator ---------------------------------------------------------------
\* CycleIterator(iterable): epoch 0, no pass started
NewCycleIterator == [epoch |-> 0, idx |-> 0]

\* next(it) over a dataloader of n batches: the batch returned and the iterator after;
\* the epoch counter grows when the end of a pass is hit and a new pass starts
CycleNext(it, n) ==
    IF it.idx < n
    THEN [it |-> [epoch |-> it.epoch, idx |-> it.idx + 1], batch |-> it.idx + 1]
    ELSE [it |-> [epoch |-> it.epoch + 1, idx |-> 1], batch |-> 1]

\* a fast-forward that stops one batch short
RECURSIVE FastForwardShort(_, _, _)
FastForwardShort(it, n, k) ==
    IF k <= 1 THEN it ELSE FastForwardShort(CycleNext(it, n).it, n, k - 1)

\* for resume_iter in range(k): next(train_iterator)
RECURSIVE FastForward(_, _, _)
FastForward(it, n, k) == IF k = 0 THEN it ELSE FastForward(CycleNext(it, n).it, n, k - 1)

\* ---- validate_args -----------------------------------------------------------------
Unsupported(a) == SelectSeq(<<"max_tokens", "max_norm">>, LAMBDA name : a[name] # NoneVal)

RequiredWithoutEpochs(a) ==
    SelectSeq(<<"checkpoint_dir", "max_new_tokens">>, LAMBDA name : a[name] = NoneVal)

Required(a) == SelectSeq(<<"checkpoint_dir", "epochs", "max_new_tokens">>, LAMBDA name : a[name] = NoneVal)

UnsupportedIssues(a) == [i \in 1..Len(Unsupported(a)) |-> <<"doesn't support", Unsupported(a)[i]>>]

RequiredIssues(a) == [i \in 1..Len(Required(a)) |-> <<"requires", Required(a)[i]>>]

\* the issues list of validate_args; ValueError is raised iff it is not empty
validate_args(a) == UnsupportedIssues(a) \o RequiredIssues(a)

\* ---- validate -----------------------------------------------------------------------
\* validate reads max_iters batches from a fresh iter(val_dataloader);
\* next() raises StopIteration when the dataloader has fewer
ValidateRaises(val_len, max_iters) == max_iters > val_len

\* ---- arguments -----------------------------------------------------------------------
\* accum is train.gradient_accumulation_iters(devices); train_len and val_len are
\* len(train_dataloader) and len(val_dataloader)
AllArgs ==
    [max_tokens : Opt({1}), max_norm : Opt({1}), checkpoint_dir : Opt({1}),
     max_new_tokens : Opt({1}), epochs : Opt(1..MaxEpochs), max_steps : Opt(0..MaxSteps),
     save_interval : 1..MaxInterval, eval_interval : 1..MaxInterval,
     eval_max_iters : 1..MaxEvalIters, accum : 1..MaxAccum,
     train_len : 1..MaxLen, val_len : 1..MaxValLen]

\* the defaults of setup, as far as the bounds allow
IsDefault(a) ==
    /\ a.max_steps = NoneVal /\ a.save_interval = 1 /\ a.eval_interval = 1
    /\ a.eval_max_iters = 1 /\ a.accum = 1 /\ a.train_len = 1 /\ a.val_len = 1

\* rejected argument sets are tried with the default hyper-parameters only
ArgSpace == {a \in AllArgs : validate_args(a) # <<>> => IsDefault(a)}

NoResume == [kind |-> "False", path |-> <<>>]

AutoResume == [kind |-> "True", path |-> <<>>]

PathResume(name) == [kind |-> "Path", path |-> name]

NoValidate == [iter_num |-> NoneVal, max_iters |-> NoneVal]

NoError == [type |-> "", issues |-> <<>>]

Raise(type) == [type |-> type, issues |-> <<>>]

\* state = {"model": ..., "optimizer": ..., "scheduler": ..., "iter_num": 0, "step_count": 0}
\* model and optimizer count the updates applied, scheduler the scheduler.step() calls
FreshState == [model |-> 0, optimizer |-> 0, scheduler |-> 0, iter_num |-> 0, step_count |-> 0]

\* min(train.epochs * steps_per_epoch, (train.max_steps or float("inf")))
LrMaxSteps(a) ==
    LET steps_per_epoch == a.train_len \div a.accum IN
    IF a.max_steps = NoneVal \/ a.max_steps = 0 THEN a.epochs * steps_per_epoch
    ELSE IF a.epochs * steps_per_epoch < a.max_steps THEN a.epochs * steps_per_epoch
    ELSE a.max_steps

\* ---- data modules: what they are given ------------------------------------------------
\* the entries of the hub dataset (Deita: conversations, each with a number of messages)
\* or the downloaded shards (TinyStories: json files, each with a number of stories);
\* `split` is where Deita's train_sft ends and test_sft begins
Entries == UNION {[1..n -> 0..MaxMsgs] : n \in 0..MaxItems}

NoSource == [entries |-> <<>>, split |-> 0]

\* entry["messages"] of the c-th entry: the content of a message is named by its place
Messages(src, c) == [m \in 1..src.entries[c] |-> [content |-> <<c, m>>]]

\* load_dataset(repo_id, split=["train_sft", "test_sft"])
HubSplit(src, name) ==
    IF name = "train_sft"
    THEN [c \in 1..src.split |-> [messages |-> Messages(src, c)]]
    ELSE [c \in 1..(Len(src.entries) - src.split) |-> [messages |-> Messages(src, src.split + c)]]

\* the number of tokens the tokenizer makes of a text
TokenLen(content) == 1 + ((content[1] + content[2]) % MaxTokens)

\* ---- format_dataset -----------------------------------------------------------------------
\* range(0, stop - 1, 2)
Range2StopEarly(stop) == [k \in 1..(IF stop <= 0 THEN 0 ELSE stop \div 2) |-> 2 * (k - 1)]

\* range(0, stop, 2)
Range2(stop) == [k \in 1..(IF stop <= 0 THEN 0 ELSE (stop + 1) \div 2) |-> 2 * (k - 1)]

\* {"instruction": ..., "input": "", "output": ...}
Record(instruction, output) == [instruction |-> instruction, input |-> "", output |-> output]

\* what one entry adds to formatted_ds; convo[i] of the code is convo[i + 1] here
ConvoRecords(convo, include_multi_turn_conversations) ==
    IF include_multi_turn_conversations
    THEN [k \in 1..Len(Range2(Len(convo) - 1)) |->
            Record(convo[Range2(Len(convo) - 1)[k] + 1].content,
                   convo[Range2(Len(convo) - 1)[k] + 2].content)]
    ELSE <<Record(convo[1].content, convo[2].content)>>

\* convo[0] or convo[1] does not exist
ConvoRaises(convo, include_multi_turn_conversations) ==
    ~include_multi_turn_conversations /\ Len(convo) < 2

RECURSIVE format_dataset(_, _)
format_dataset(dataset_partition, include_multi_turn_conversations) ==
    IF Len(dataset_partition) = 0 THEN <<>>
    ELSE ConvoRecords(Head(dataset_partition).messages, include_multi_turn_conversations)
         \o format_dataset(Tail(dataset_partition), include_multi_turn_conversations)

FormatRaises(dataset_partition, include_multi_turn_conversations) ==
    \E c \in 1..Len(dataset_partition) :
        ConvoRaises(dataset_partition[c].messages, include_multi_turn_conversations)

\* ---- SFTDataset, the collate function, DataLoader ------------------------------------------
\* x[:max_seq_length] when max_seq_length > 0
Truncate(n, max_seq_length) ==
    IF max_seq_length > 0 /\ n > max_seq_length THEN max_seq_length ELSE n

\* SFTDataset(data, ...)[i]: input_ids and labels of the same length
SFTItem(record, max_seq_length) ==
    [record |-> record,
     length |-> Truncate(TokenLen(record.instruction) + TokenLen(record.output), max_seq_length)]

SFTDataset(records, max_seq_length) ==
    [i \in 1..Len(records) |-> SFTItem(records[i], max_seq_length)]

SeqMax(s) == IF Len(s) = 0 THEN 0 ELSE CHOOSE x \in {s[i] : i \in 1..Len(s)} : \A i \in 1..Len(s) : s[i] <= x

\* get_sft_collate_fn(max_seq_length, ignore_index)(samples): both tensors padded to the
\* longest sample and cut at max_seq_length; a shape is <<rows, columns>>
Collate(samples, max_seq_length) ==
    LET shape == <<Len(samples),
                   Truncate(SeqMax([i \in 1..Len(samples) |-> samples[i].length]), max_seq_length)>>
    IN [input_ids |-> shape, labels |-> shape]

\* a DataLoader that keeps only full batches
RECURSIVE ChunksDropLast(_, _)
ChunksDropLast(s, batch_size) ==
    IF Len(s) < batch_size THEN <<>>
    ELSE <<SubSeq(s, 1, batch_size)>> \o ChunksDropLast(SubSeq(s, batch_size + 1, Len(s)), batch_size)

\* the Deita loaders, had they been built with drop_last=True
ChunksFullOnly(s, batch_size) == ChunksDropLast(s, batch_size)

\* DataLoader(dataset, batch_size=...): drop_last is left False, the last batch may be short
RECURSIVE Chunks(_, _)
Chunks(s, batch_size) ==
    IF Len(s) = 0 THEN <<>>
    ELSE IF Len(s) <= batch_size THEN <<s>>
    ELSE <<SubSeq(s, 1, batch_size)>> \o Chunks(SubSeq(s, batch_size + 1, Len(s)), batch_size)

Reverse(s) == [i \in 1..Len(s) |-> s[Len(s) + 1 - i]]

\* the orders the sampler may visit the dataset in: shuffle=True is tried with two
Orders(s, shuffle) == IF shuffle THEN {s, Reverse(s)} ELSE {s}

\* iterating a Deita dataloader to its end
SFTBatches(ordered, batch_size, max_seq_length) ==
    [b \in 1..Len(Chunks(ordered, batch_size)) |->
        [batch |-> Collate(Chunks(ordered, batch_size)[b], max_seq_length),
         samples |-> Chunks(ordered, batch_size)[b]]]

\* ---- TinyStories -----------------------------------------------------------------------------
\* tokenize(filename, tokenizer) over the shards first..last: one token sequence per story,
\* a token is named by its shard, story and place
RECURSIVE StoryTokens(_, _, _)
StoryTokens(src, shard, story) ==
    IF story > src.entries[shard] THEN <<>>
    ELSE [t \in 1..TokenLen(<<shard, story>>) |-> <<shard, story, t>>]
         \o StoryTokens(src, shard, story + 1)

RECURSIVE ShardTokens(_, _, _)
ShardTokens(src, first, last) ==
    IF first > last THEN <<>>
    ELSE StoryTokens(src, first, 1) \o ShardTokens(src, first + 1, last)

\* StreamingDataset(item_loader=TokensLoader(block_size), drop_last=True): the blocks
Blocks(tokens, block_size) == ChunksDropLast(tokens, block_size)

\* iterating a TinyStories dataloader (drop_last=True) to its end: a batch is one tensor
TokenBatches(ordered, batch_size, block_size) ==
    [b \in 1..Len(ChunksDropLast(ordered, batch_size)) |->
        [batch |-> [tokens |-> <<batch_size, block_size>>],
         samples |-> ChunksDropLast(ordered, batch_size)[b]]]

\* ---- scripts/download.py: names and patterns -----------------------------------------------------
MaxShards == 2

\* a file name is the sequence of its parts, the last one being its suffix
TokenizerFiles == {<<"tokenizer", ".json">>, <<"tokenizer", "_config", ".json">>}
OtherFiles ==
    {<<"generation_config", ".json">>, <<"qwen", ".tiktoken">>, <<"config", ".json">>,
     <<"model", ".safetensors", ".index", ".json">>, <<"pytorch_model", ".bin">>,
     <<"pytorch_model", ".bin", ".index", ".json">>}
Shard(i) == <<"model-", Digit(i), ".safetensors">>

\* repository ids, as the sequence of their parts; <<>> is None
NoRepoId == <<>>
RepoIds ==
    {NoRepoId, <<"meta-llama", "/Llama-2-7b-hf">>, <<"tiiuae/", "falcon-180", "B">>,
     <<"Qwen", "/", "Qwen", "-7B">>, <<"EleutherAI/pythia-70m">>}

\* access tokens: None, the empty string, a token
NoToken == "None"
AccessTokens == {NoToken, "", "hf_token"}

\* `part in text`
Contains(text, part) == \E i \in 1..Len(text) : text[i] = part

\* `access_token is None`
IsNone(access_token) == access_token = NoToken

\* `not access_token`
Not(access_token) == access_token \in {NoToken, ""}

\* fnmatch of a file name against one of the patterns of download_files
Matches(name, pattern) ==
    CASE pattern = "tokenizer*" -> name[1] = "tokenizer"
      [] pattern = "generation_config.json" -> name = <<"generation_config", ".json">>
      [] pattern = "qwen.tiktoken" -> name = <<"qwen", ".tiktoken">>
      [] pattern = "*.safetensors" -> name[Len(name)] = ".safetensors"
      [] pattern = "*.bin*" -> \E i \in 2..Len(name) : name[i] = ".bin"

\* directory.glob("*.safetensors")
Glob(directory) == {name \in directory : Matches(name, "*.safetensors")}

\* str(safetensor_path) + ".bin"
add_suffix(name, suffix) == name \o <<suffix>>

\* safetensor_path.with_suffix(".bin")
with_suffix(name, suffix) == [name EXCEPT ![Len(name)] = suffix]

\* download_files, once the arguments have passed
download_files(repo_id, from_safetensors, tokenizer_only) ==
    {"tokenizer*", "generation_config.json"}
    \cup (IF Contains(repo_id, "Qwen") THEN {"qwen.tiktoken"} ELSE {})
    \cup (IF tokenizer_only THEN {}
          ELSE IF from_safetensors THEN {"*.safetensors"} ELSE {"*.bin*"})

\* the exception the checks before snapshot_download end in, "" if none
Rejection(a) ==
    IF (Contains(a.repo_id, "meta-llama") \/ Contains(a.repo_id, "falcon-180")) /\ Not(a.access_token)
    THEN "ValueError"
    ELSE IF ~a.tokenizer_only /\ a.from_safetensors /\ ~a.safetensors_available
    THEN "ModuleNotFoundError"
    ELSE IF a.tokenizer_only /\ a.from_safetensors THEN "ValueError"
    ELSE ""

NoDownload ==
    [pc |-> "idle", args |-> [repo_id |-> NoRepoId, access_token |-> NoToken,
                               from_safetensors |-> FALSE, tokenizer_only |-> FALSE,
                               safetensors_available |-> TRUE],
     hub |-> {}, corrupt |-> {}, directory |-> {}, before |-> {}, snapshots |-> 0, listed |-> FALSE,
     todo |-> {}, current |-> <<>>, written |-> {}, removed |-> {}, error |-> "", at |-> <<>>]

\* ---- a multi-device run ------------------------------------------------------------------------
\* fabric.global_rank of the processes fabric.launch starts with devices = 2
Ranks == {0, 1}

\* no collective operation
NoCollective == [op |-> "", line |-> 0]

\* a rank that has entered fit: `waiting` names the collective it is blocked in
NewRank ==
    [pc |-> "fit", state |-> FreshState, it |-> NewCycleIterator, acc |-> FALSE,
     waiting |-> NoCollective, log |-> <<>>, error |-> ""]

NoRun == [started |-> FALSE, resuming |-> FALSE, rank |-> [r \in Ranks |-> NewRank]]

\* ---- the data module object ------------------------------------------------------------------
\* the fields of a new module: batch_size 1, max_seq_length -1, no dataset
NoData ==
    [kind |-> "", stage |-> "none", batch_size |-> 1, max_seq_length |-> -1,
     include_multiturn_conversations |-> FALSE, given_max_seq_length |-> NoneVal,
     train_dataset |-> <<>>, test_dataset |-> <<>>, error |-> ""]

NoLoaders == [made |-> {}, train |-> <<>>, val |-> <<>>]

\* no format_dataset call yet
NoCall == [fn |-> "", lengths |-> <<>>, multi |-> FALSE, raised |-> "", result |-> <<>>]

\* Deita(...) or TinyStories(...), and what it will find when it loads its data
DataModule ==
    /\ data.stage = "none"
    /\ \E kind \in {"Deita", "TinyStories"}, e \in Entries, multi \in BOOLEAN :
          /\ kind = "TinyStories" => ~multi
          /\ \E k \in 0..Len(e) :
                /\ kind = "TinyStories" => k = Len(e)
                /\ source' = [entries |-> e, split |-> k]
          /\ data' = [NoData EXCEPT !.kind = kind, !.stage = "new",
                                     !.include_multiturn_conversations = multi]
    /\ UNCHANGED loaders
    /\ UNCHANGED <<trainVars, extVars>>

\* connect(tokenizer, batch_size, max_seq_length)
connect ==
    /\ data.stage = "new"
    /\ \E batch_size \in 1..MaxBatch, max_seq_length \in Opt(1..MaxSeq) :
          IF data.kind = "Deita"
          THEN data' = [data EXCEPT !.stage = "connected", !.batch_size = batch_size,
                                    !.given_max_seq_length = max_seq_length,
                                    !.max_seq_length = IF max_seq_length = NoneVal THEN -1
                                                       ELSE max_seq_length]
          ELSE IF max_seq_length = NoneVal
          THEN data' = [data EXCEPT !.stage = "error", !.error = "TypeError"]
          ELSE data' = [data EXCEPT !.stage = "connected", !.batch_size = batch_size,
                                    !.given_max_seq_length = max_seq_length,
                                    !.max_seq_length = max_seq_length + 1]
    /\ UNCHANGED <<source, loaders>>
    /\ UNCHANGED <<trainVars, extVars>>

\* prepare_data(): Deita downloads; TinyStories needs two shards, keeps the first for
\* validation and tokenizes the rest for training
prepare_data ==
    /\ data.stage = "connected"
    /\ IF data.kind = "TinyStories"
       THEN IF Len(source.entries) > 1
            THEN data' = [data EXCEPT !.stage = "prepared",
                                      !.train_dataset = ShardTokens(source, 2, Len(source.entries)),
                                      !.test_dataset = ShardTokens(source, 1, 1)]
            ELSE data' = [data EXCEPT !.stage = "error", !.error = "AssertionError"]
       ELSE data' = [data EXCEPT !.stage = "prepared"]
    /\ UNCHANGED <<source, loaders>>
    /\ UNCHANGED <<trainVars, extVars>>

\* setup(): Deita formats and wraps its two splits; TinyStories does nothing
data_setup ==
    /\ data.stage = "prepared"
    /\ IF data.kind = "Deita"
       THEN IF FormatRaises(HubSplit(source, "train_sft"), data.include_multiturn_conversations)
               \/ FormatRaises(HubSplit(source, "test_sft"), data.include_multiturn_conversations)
            THEN data' = [data EXCEPT !.stage = "error", !.error = "IndexError"]
            ELSE data' = [data EXCEPT
                    !.stage = "setup",
                    !.train_dataset = SFTDataset(format_dataset(HubSplit(source, "train_sft"),
                                            data.include_multiturn_conversations), data.max_seq_length),
                    !.test_dataset = SFTDataset(format_dataset(HubSplit(source, "test_sft"),
                                            data.include_multiturn_conversations), data.max_seq_length)]
       ELSE data' = [data EXCEPT !.stage = "setup"]
    /\ UNCHANGED <<source, loaders>>
    /\ UNCHANGED <<trainVars, extVars>>

\* the batches of a loader over `dataset`
LoaderBatches(d, dataset, shuffle) ==
    IF d.kind = "Deita"
    THEN {SFTBatches(o, d.batch_size, d.max_seq_length) : o \in Orders(dataset, shuffle)}
    ELSE {TokenBatches(o, d.batch_size, d.max_seq_length) :
            o \in Orders(Blocks(dataset, d.max_seq_length), TRUE)}

\* train_dataloader(), iterated to its end
train_dataloader ==
    /\ data.stage = "setup"
    /\ "train" \notin loaders.made
    /\ \E bs \in LoaderBatches(data, data.train_dataset, TRUE) :
          loaders' = [loaders EXCEPT !.made = @ \cup {"train"}, !.train = bs]
    /\ UNCHANGED <<data, source>>
    /\ UNCHANGED <<trainVars, extVars>>

\* val_dataloader(), iterated to its end
val_dataloader ==
    /\ data.stage = "setup"
    /\ "val" \notin loaders.made
    /\ \E bs \in LoaderBatches(data, data.test_dataset, FALSE) :
          loaders' = [loaders EXCEPT !.made = @ \cup {"val"}, !.val = bs]
    /\ UNCHANGED <<data, source>>
    /\ UNCHANGED <<trainVars, extVars>>

NextData ==
    \/ DataModule
    \/ connect
    \/ prepare_data
    \/ data_setup
    \/ train_dataloader
    \/ val_dataloader

\* ---- the process ----------------------------------------------------------------------
Init ==
    /\ pc = "idle"
    /\ args = CHOOSE a \in ArgSpace : IsDefault(a) /\ validate_args(a) = <<>> /\ a.epochs = 1
    /\ resume_arg = NoResume
    /\ resume = NoResume
    /\ state = FreshState
    /\ train_iterator = NewCycleIterator
    /\ batch = 0
    /\ is_accumulating = FALSE
    /\ initial_iter = 0
    /\ out_dir = {}
    /\ error = NoError
    /\ main_calls = <<>>
    /\ grads = 0
    /\ n_next = 0
    /\ n_val = 0
    /\ last_val = NoValidate
    /\ writes = <<>>
    /\ n_iters = 0
    /\ lr_max_steps = NoneVal
    /\ data = NoData
    /\ source = NoSource
    /\ loaders = NoLoaders
    /\ call = NoCall
    /\ dl = NoDownload
    /\ mp = NoRun

\* what a new process starts with
Launch ==
    /\ pc' = "main"
    /\ state' = FreshState
    /\ train_iterator' = NewCycleIterator
    /\ batch' = 0
    /\ is_accumulating' = FALSE
    /\ initial_iter' = 0
    /\ error' = NoError
    /\ main_calls' = <<>>
    /\ grads' = 0
    /\ n_next' = 0
    /\ n_val' = 0
    /\ last_val' = NoValidate
    /\ writes' = <<>>
    /\ n_iters' = 0
    /\ lr_max_steps' = NoneVal
    /\ UNCHANGED out_dir
    /\ UNCHANGED <<dataVars, extVars>>

\* setup(...) on an empty out_dir: the first process
setup ==
    /\ pc = "idle"
    /\ \E a \in ArgSpace, r \in {NoResume, AutoResume} : args' = a /\ resume_arg' = r /\ resume' = r
    /\ Launch

\* setup(resume=...) again with the same arguments, after an earlier process has ended
setup_resume ==
    /\ pc \in {"done", "error", "killed"}
    /\ out_dir # {}
    /\ \E r \in {AutoResume} \cup {PathResume(n) : n \in Names(out_dir)} : resume_arg' = r /\ resume' = r
    /\ UNCHANGED args
    /\ Launch

\* main, line 95
MainValidateArgs ==
    /\ pc = "main"
    /\ main_calls' = Append(main_calls, "validate_args")
    /\ IF validate_args(args) # <<>>
       THEN pc' = "error" /\ error' = [type |-> "ValueError", issues |-> validate_args(args)]
       ELSE pc' = "prepare" /\ error' = error
    /\ UNCHANGED <<dataVars, extVars>>
    /\ UNCHANGED <<args, resume_arg, resume, state, train_iterator, batch, is_accumulating, initial_iter,
                   out_dir, grads, n_next, n_val, last_val, writes, n_iters,
                   lr_max_steps>>

\* main, lines 96-121
MainPrepare ==
    /\ pc = "prepare"
    /\ main_calls' = main_calls \o <<"check_valid_checkpoint_dir", "get_dataloaders", "makedirs", "GPT">>
    /\ lr_max_steps' = LrMaxSteps(args)
    /\ state' = FreshState
    /\ pc' = "load"
    /\ UNCHANGED <<dataVars, extVars>>
    /\ UNCHANGED <<args, resume_arg, resume, train_iterator, batch, is_accumulating, initial_iter,
                   out_dir, error, grads, n_next, n_val, last_val, writes, n_iters>>

\* max(io.out_dir.glob("*.pth"), key=...): the exceptions it can raise, in whatever
\* order the directory lists the files
ResumeErrors(dir) ==
    IF dir = {} THEN {"ValueError"}
    ELSE {ResumeKey(f.name).err : f \in dir} \ {""}

\* max(io.out_dir.glob("*.pth"), key=...) when no key raises
LatestCheckpoint(dir) ==
    CHOOSE f \in dir : \A g \in dir : ResumeKey(g.name).val <= ResumeKey(f.name).val

\* fabric.load(path, state): every key of state must be in the checkpoint
Loadable(f) == StateKeys \subseteq DOMAIN f.data

\* main, lines 123-129
MainLoad ==
    /\ pc = "load"
    /\ main_calls' = Append(main_calls, "load")
    /\ \/ /\ resume.kind = "False"
          /\ pc' = "fit"
          /\ UNCHANGED <<resume, state, error>>
       \/ /\ resume.kind = "True"
          /\ \E e \in ResumeErrors(out_dir) :
                /\ pc' = "error"
                /\ error' = Raise(e)
                /\ UNCHANGED <<resume, state>>
       \/ /\ resume.kind = "True"
          /\ ResumeErrors(out_dir) = {}
          /\ resume' = PathResume(LatestCheckpoint(out_dir).name)
          /\ IF Loadable(LatestCheckpoint(out_dir))
             THEN pc' = "fit" /\ state' = LatestCheckpoint(out_dir).data /\ error' = error
             ELSE pc' = "error" /\ error' = Raise("KeyError") /\ state' = state
       \/ /\ resume.kind = "Path"
          /\ resume' = resume
          /\ IF Loadable(FileAt(out_dir, resume.path))
             THEN pc' = "fit" /\ state' = FileAt(out_dir, resume.path).data /\ error' = error
             ELSE pc' = "error" /\ error' = Raise("KeyError") /\ state' = state
    /\ UNCHANGED <<dataVars, extVars>>
    /\ UNCHANGED <<args, resume_arg, train_iterator, batch, is_accumulating, initial_iter, out_dir,
                   grads, n_next, n_val, last_val, writes, n_iters, lr_max_steps>>

\* `if resume:` in fit
Resuming(r) == r.kind # "False"

\* fit, lines 152-165: the sanity check and the new iterator
FitSanity ==
    /\ pc = "fit"
    /\ IF ValidateRaises(args.val_len, 2)
       THEN /\ pc' = "error"
            /\ error' = Raise("StopIteration")
            /\ UNCHANGED <<n_val, last_val, initial_iter, train_iterator>>
       ELSE /\ pc' = "ff"
            /\ n_val' = n_val + 1
            /\ last_val' = [iter_num |-> state.iter_num, max_iters |-> 2]
            /\ initial_iter' = state.iter_num
            /\ train_iterator' = NewCycleIterator
            /\ error' = error
    /\ UNCHANGED <<dataVars, extVars>>
    /\ UNCHANGED <<args, resume_arg, resume, state, batch, is_accumulating, out_dir, main_calls,
                   grads, n_next, writes, n_iters, lr_max_steps>>

\* fit, lines 167-183: fast-forward through the batches already seen
FitResume ==
    /\ pc = "ff"
    /\ IF Resuming(resume)
       THEN /\ train_iterator' = FastForward(train_iterator, args.train_len, initial_iter)
            /\ n_next' = n_next + initial_iter
       ELSE UNCHANGED <<train_iterator, n_next>>
    /\ pc' = "loop"
    /\ UNCHANGED <<dataVars, extVars>>
    /\ UNCHANGED <<args, resume_arg, resume, state, batch, is_accumulating, initial_iter, out_dir,
                   error, main_calls, grads, n_val, last_val, writes, n_iters,
                   lr_max_steps>>

\* a loop that still runs when step_count has reached max_steps
LoopConditionLate(st, it, a) ==
    (a.max_steps = NoneVal \/ a.max_steps = 0 \/ st.step_count <= a.max_steps)
    /\ it.epoch < a.epochs

\* the condition of fit's while loop, line 185
LoopCondition(st, it, a) ==
    LessThanOrInf(st.step_count, a.max_steps) /\ it.epoch < a.epochs

\* is_accumulating taken from iter_num before its increment
IsAccumulatingStale(iter_num, accum) == (iter_num - 1) % accum # 0

\* line 191
IsAccumulating(iter_num, accum) == iter_num % accum # 0

\* lines 200-204
OptimizerStep(st) ==
    [st EXCEPT !.model = @ + 1, !.optimizer = @ + 1, !.scheduler = @ + 1, !.step_count = @ + 1]

\* the body of the loop up to line 204: the iteration counter, the batch taken from the
\* iterator, and the optimizer step of a non-accumulating iteration
TrainStep(st, it, a) ==
    LET st1 == [st EXCEPT !.iter_num = @ + 1]
        nx == CycleNext(it, a.train_len)
        acc == IsAccumulating(st1.iter_num, a.accum)
    IN [state |-> IF acc THEN st1 ELSE OptimizerStep(st1),
        it |-> nx.it, batch |-> nx.batch, acc |-> acc]

\* fit, lines 185-204: one more iteration
FitTrain ==
    /\ pc = "loop"
    /\ LoopCondition(state, train_iterator, args)
    /\ LET r == TrainStep(state, train_iterator, args)
       IN /\ train_iterator' = r.it
          /\ batch' = r.batch
          /\ is_accumulating' = r.acc
          /\ state' = r.state
          /\ grads' = IF r.acc THEN grads + 1 ELSE 0
    /\ n_next' = n_next + 1
    /\ n_iters' = n_iters + 1
    /\ pc' = "eval"
    /\ UNCHANGED <<dataVars, extVars>>
    /\ UNCHANGED <<args, resume_arg, resume, initial_iter, out_dir, error, main_calls, n_val,
                   last_val, writes, lr_max_steps>>

\* fit, line 185: the loop ends and fit returns
FitExit ==
    /\ pc = "loop"
    /\ ~LoopCondition(state, train_iterator, args)
    /\ pc' = "final"
    /\ UNCHANGED <<dataVars, extVars>>
    /\ UNCHANGED <<args, resume_arg, resume, state, train_iterator, batch, is_accumulating,
                   initial_iter, out_dir, error, main_calls, grads, n_next, n_val,
                   last_val, writes, n_iters, lr_max_steps>>

\* a validation that does not look at is_accumulating
EvalDueAnyIter(acc, step_count, interval) == step_count % interval = 0

\* line 226
EvalDue(acc, step_count, interval) == ~acc /\ step_count % interval = 0

\* a save that does not look at is_accumulating
SaveDueAnyIter(acc, step_count, interval) == step_count % interval = 0

\* line 234
SaveDue(acc, step_count, interval) == ~acc /\ step_count % interval = 0

\* fit, lines 226-233
FitEval ==
    /\ pc = "eval"
    /\ IF EvalDue(is_accumulating, state.step_count, args.eval_interval)
       THEN IF ValidateRaises(args.val_len, args.eval_max_iters)
            THEN /\ pc' = "error"
                 /\ error' = Raise("StopIteration")
                 /\ UNCHANGED <<n_val, last_val>>
            ELSE /\ pc' = "save"
                 /\ n_val' = n_val + 1
                 /\ last_val' = [iter_num |-> state.iter_num, max_iters |-> args.eval_max_iters]
                 /\ error' = error
       ELSE /\ pc' = "save"
            /\ UNCHANGED <<n_val, last_val, error>>
    /\ UNCHANGED <<dataVars, extVars>>
    /\ UNCHANGED <<args, resume_arg, resume, state, train_iterator, batch, is_accumulating,
                   initial_iter, out_dir, main_calls, grads, n_next, writes, n_iters,
                   lr_max_steps>>

\* fit, lines 234-237
FitSave ==
    /\ pc = "save"
    /\ IF SaveDue(is_accumulating, state.step_count, args.save_interval)
       THEN /\ out_dir' = Save(out_dir, StepName(state.step_count), state)
            /\ writes' = Append(writes, StepName(state.step_count))
       ELSE UNCHANGED <<out_dir, writes>>
    /\ pc' = "loop"
    /\ UNCHANGED <<dataVars, extVars>>
    /\ UNCHANGED <<args, resume_arg, resume, state, train_iterator, batch, is_accumulating,
                   initial_iter, error, main_calls, grads, n_next, n_val, last_val,
                   n_iters, lr_max_steps>>

\* a final save of the whole state
FinalDataWholeState(st) == st

\* what main saves at the end: {"model": state["model"]}
FinalData(st) == [model |-> st.model]

\* main, lines 133-138
MainSaveFinal ==
    /\ pc = "final"
    /\ out_dir' = Save(out_dir, FinalName, FinalData(state))
    /\ writes' = Append(writes, FinalName)
    /\ main_calls' = Append(main_calls, "save")
    /\ pc' = "done"
    /\ UNCHANGED <<dataVars, extVars>>
    /\ UNCHANGED <<args, resume_arg, resume, state, train_iterator, batch, is_accumulating,
                   initial_iter, error, grads, n_next, n_val, last_val, n_iters,
                   lr_max_steps>>

\* the process is killed from outside while fit's loop runs
Kill ==
    /\ pc \in {"loop", "eval", "save"}
    /\ pc' = "killed"
    /\ UNCHANGED <<dataVars, extVars>>
    /\ UNCHANGED <<args, resume_arg, resume, state, train_iterator, batch, is_accumulating,
                   initial_iter, out_dir, error, main_calls, grads, n_next, n_val,
                   last_val, writes, n_iters, lr_max_steps>>

Next ==
    \/ setup
    \/ setup_resume
    \/ MainValidateArgs
    \/ MainPrepare
    \/ MainLoad
    \/ FitSanity
    \/ FitResume
    \/ FitTrain
    \/ FitExit
    \/ FitEval
    \/ FitSave
    \/ MainSaveFinal
    \/ Kill

Spec == Init /\ [][Next]_vars

\* a data module driven through connect, prepare_data, setup and its two dataloaders
SpecData == Init /\ [][NextData]_vars

\* ---- format_dataset of datasets/lima.py, and calls of both format_dataset -------------------
\* dataset["train"] of LIMA: entry["conversations"] is a list of texts, named by their place
LimaTrain(lengths) ==
    [c \in 1..Len(lengths) |-> [conversations |-> [m \in 1..lengths[c] |-> <<c, m>>]]]

\* what one LIMA entry adds to formatted_ds; convo[i] of the code is convo[i + 1] here
LimaConvoRecords(convo, include_multi_turn_conversations) ==
    IF include_multi_turn_conversations
    THEN [k \in 1..Len(Range2(Len(convo) - 1)) |->
            Record(convo[Range2(Len(convo) - 1)[k] + 1], convo[Range2(Len(convo) - 1)[k] + 2])]
    ELSE <<Record(convo[1], convo[2])>>

RECURSIVE lima_format_dataset(_, _)
lima_format_dataset(dataset_partition, include_multi_turn_conversations) ==
    IF Len(dataset_partition) = 0 THEN <<>>
    ELSE LimaConvoRecords(Head(dataset_partition).conversations, include_multi_turn_conversations)
         \o lima_format_dataset(Tail(dataset_partition), include_multi_turn_conversations)

\* convo[0] or convo[1] does not exist
LimaFormatRaises(dataset_partition, include_multi_turn_conversations) ==
    \E c \in 1..Len(dataset_partition) :
        ~include_multi_turn_conversations /\ Len(dataset_partition[c].conversations) < 2

\* one call of a format_dataset: what it raised, or the list it returned
Outcome(fn, lengths, multi, raises, result) ==
    [fn |-> fn, lengths |-> lengths, multi |-> multi,
     raised |-> IF raises THEN "IndexError" ELSE "",
     result |-> IF raises THEN <<>> ELSE result]

\* deita.format_dataset(dataset_partition, include_multi_turn_conversations)
CallDeitaFormat ==
    /\ call = NoCall
    /\ \E lengths \in Entries, multi \in BOOLEAN :
          LET partition == HubSplit([entries |-> lengths, split |-> Len(lengths)], "train_sft")
          IN call' = Outcome("deita", lengths, multi, FormatRaises(partition, multi),
                             IF FormatRaises(partition, multi) THEN <<>>
                             ELSE format_dataset(partition, multi))
    /\ UNCHANGED <<trainVars, dataVars, dl, mp>>

\* lima.format_dataset(dataset_partition, include_multi_turn_conversations)
CallLimaFormat ==
    /\ call = NoCall
    /\ \E lengths \in Entries, multi \in BOOLEAN :
          LET partition == LimaTrain(lengths)
          IN call' = Outcome("lima", lengths, multi, LimaFormatRaises(partition, multi),
                             IF LimaFormatRaises(partition, multi) THEN <<>>
                             ELSE lima_format_dataset(partition, multi))
    /\ UNCHANGED <<trainVars, dataVars, dl, mp>>

NextFormat ==
    \/ CallDeitaFormat
    \/ CallLimaFormat

\* format_dataset applied to every bounded dataset partition
SpecFormat == Init /\ [][NextFormat]_vars

\* ---- scripts/download.py: download_from_hub ----------------------------------------------------
\* the arguments of a call, the files of the repository on the hub, the files already in
\* checkpoint_dir / repo_id, and the .safetensors files that will not load
DownloadCall ==
    /\ dl.pc = "idle"
    /\ \E repo_id \in RepoIds, access_token \in AccessTokens,
          from_safetensors \in BOOLEAN, tokenizer_only \in BOOLEAN, available \in BOOLEAN,
          shards \in 0..MaxShards, left \in 0..1 :
          LET hub == TokenizerFiles \cup OtherFiles \cup {Shard(i) : i \in 1..shards}
              directory == {Shard(i) : i \in 1..left} \cup {with_suffix(Shard(i), ".bin") : i \in 1..left}
          IN \E corrupt \in SUBSET Glob(hub \cup directory) :
                dl' = [NoDownload EXCEPT
                         !.pc = "check",
                         !.args = [repo_id |-> repo_id, access_token |-> access_token,
                                   from_safetensors |-> from_safetensors,
                                   tokenizer_only |-> tokenizer_only,
                                   safetensors_available |-> available],
                         !.hub = hub, !.corrupt = corrupt,
                         !.directory = directory, !.before = directory]
    /\ UNCHANGED <<trainVars, dataVars, call, mp>>

\* lines 25-54: list the repositories and return, or reject the arguments, or go on
DownloadCheck ==
    /\ dl.pc = "check"
    /\ IF dl.args.repo_id = NoRepoId
       THEN dl' = [dl EXCEPT !.pc = "returned", !.listed = TRUE]
       ELSE IF Rejection(dl.args) # ""
       THEN dl' = [dl EXCEPT !.pc = "raised", !.error = Rejection(dl.args)]
       ELSE dl' = [dl EXCEPT !.pc = "download"]
    /\ UNCHANGED <<trainVars, dataVars, call, mp>>

\* snapshot_download(repo_id, local_dir=directory, allow_patterns=download_files, ...), then
\* the glob of the conversion loop
SnapshotDownload ==
    /\ dl.pc = "download"
    /\ LET patterns == download_files(dl.args.repo_id, dl.args.from_safetensors, dl.args.tokenizer_only)
           directory == dl.directory
                        \cup {name \in dl.hub : \E pattern \in patterns : Matches(name, pattern)}
       IN dl' = [dl EXCEPT !.snapshots = @ + 1,
                           !.directory = directory,
                           !.pc = IF dl.args.from_safetensors THEN "convert" ELSE "returned",
                           !.todo = IF dl.args.from_safetensors THEN Glob(directory) ELSE {}]
    /\ UNCHANGED <<trainVars, dataVars, call, mp>>

\* the next safetensor_path of the loop: safetensors_load(safetensor_path)
ConvertLoad ==
    /\ dl.pc = "convert"
    /\ \E safetensor_path \in dl.todo :
          IF safetensor_path \in dl.corrupt
          THEN dl' = [dl EXCEPT !.pc = "raised", !.error = "RuntimeError", !.at = safetensor_path]
          ELSE dl' = [dl EXCEPT !.pc = "save", !.current = safetensor_path]
    /\ UNCHANGED <<trainVars, dataVars, call, mp>>

\* torch.save(result, bin_path)
ConvertSave ==
    /\ dl.pc = "save"
    /\ dl' = [dl EXCEPT !.pc = "remove",
                        !.directory = @ \cup {with_suffix(dl.current, ".bin")},
                        !.written = @ \cup {with_suffix(dl.current, ".bin")}]
    /\ UNCHANGED <<trainVars, dataVars, call, mp>>

\* os.remove(safetensor_path)
ConvertRemove ==
    /\ dl.pc = "remove"
    /\ dl' = [dl EXCEPT !.pc = "convert",
                        !.directory = @ \ {dl.current},
                        !.removed = @ \cup {dl.current},
                        !.todo = @ \ {dl.current},
                        !.current = <<>>]
    /\ UNCHANGED <<trainVars, dataVars, call, mp>>

\* the loop has no file left
ConvertDone ==
    /\ dl.pc = "convert"
    /\ dl.todo = {}
    /\ dl' = [dl EXCEPT !.pc = "returned"]
    /\ UNCHANGED <<trainVars, dataVars, call, mp>>

NextDownload ==
    \/ DownloadCall
    \/ DownloadCheck
    \/ SnapshotDownload
    \/ ConvertLoad
    \/ ConvertSave
    \/ ConvertRemove
    \/ ConvertDone

\* one call of download_from_hub
SpecDownload == Init /\ [][NextDownload]_vars

\* ---- the run of fit that is never interrupted -------------------------------------------
\* fit's loop started from iter_num = 0, step_count = 0 and a new iterator, after at
\* most i iterations
RECURSIVE Uninterrupted(_, _)
Uninterrupted(a, i) ==
    IF i = 0
    THEN [state |-> FreshState, it |-> NewCycleIterator, batch |-> 0, acc |-> FALSE]
    ELSE LET c == Uninterrupted(a, i - 1)
         IN IF c.state.iter_num = i - 1 /\ LoopCondition(c.state, c.it, a)
            THEN TrainStep(c.state, c.it, a)
            ELSE c

\* the iteration at which the uninterrupted run leaves the loop
UninterruptedStop(a) == Uninterrupted(a, a.epochs * a.train_len + 2).state.iter_num

\* ---- fit on several ranks ------------------------------------------------------------------------
\* a different number of batches on every rank
RankTrainLenUneven(r, a) == a.train_len + r

\* len(train_dataloader) on rank r: fabric.setup_dataloaders gives every rank the same
RankTrainLen(r, a) == a.train_len

RankArgs(r, a) == [a EXCEPT !.train_len = RankTrainLen(r, a)]

\* the rank enters a collective operation and blocks in it
Arrive(m, op, line) ==
    [m EXCEPT !.waiting = [op |-> op, line |-> line],
              !.log = Append(@, [op |-> op, line |-> line])]

\* fabric.launch(main, ...): every rank gets the same arguments and, when resuming, loads
\* the same checkpoint, one that the uninterrupted run saved after k iterations
RanksLaunch ==
    /\ ~mp.started
    /\ \E a \in ArgSpace, k \in 0..MaxLen :
          /\ validate_args(a) = <<>>
          /\ k > 0 => /\ Uninterrupted(a, k).state.iter_num = k
                      /\ SaveDue(Uninterrupted(a, k).acc, Uninterrupted(a, k).state.step_count,
                                 a.save_interval)
          /\ mp' = [started |-> TRUE, resuming |-> k > 0, args |-> a,
                    rank |-> [r \in Ranks |-> [NewRank EXCEPT !.state = Uninterrupted(a, k).state]]]
    /\ UNCHANGED <<trainVars, dataVars, call, dl>>

\* rank r may take a step of its own
Running(r) == mp.started /\ mp.rank[r].waiting = NoCollective

\* fit, lines 152-165
RankSanity ==
    /\ \E r \in Ranks :
          /\ Running(r) /\ mp.rank[r].pc = "fit"
          /\ mp' = [mp EXCEPT !.rank[r] =
                      IF ValidateRaises(mp.args.val_len, 2)
                      THEN [@ EXCEPT !.pc = "error", !.error = "StopIteration"]
                      ELSE [@ EXCEPT !.pc = "ff", !.it = NewCycleIterator]]
    /\ UNCHANGED <<trainVars, dataVars, call, dl>>

\* fit, lines 167-178: the fast-forward and its barrier
RankResume ==
    /\ \E r \in Ranks :
          /\ Running(r) /\ mp.rank[r].pc = "ff"
          /\ mp' = [mp EXCEPT !.rank[r] =
                      IF mp.resuming
                      THEN Arrive([@ EXCEPT !.pc = "pre",
                                            !.it = FastForward(@, RankTrainLen(r, mp.args),
                                                               mp.rank[r].state.iter_num)],
                                  "barrier", 174)
                      ELSE [@ EXCEPT !.pc = "pre"]]
    /\ UNCHANGED <<trainVars, dataVars, call, dl>>

\* fit, lines 180-183: the barrier before the loop
RankBarrier ==
    /\ \E r \in Ranks :
          /\ Running(r) /\ mp.rank[r].pc = "pre"
          /\ mp' = [mp EXCEPT !.rank[r] = Arrive([@ EXCEPT !.pc = "loop"], "barrier", 183)]
    /\ UNCHANGED <<trainVars, dataVars, call, dl>>

\* fit, lines 185-204: an iteration; the backward of a non-accumulating one synchronizes
\* the gradients of all ranks
RankTrain ==
    /\ \E r \in Ranks :
          LET m == mp.rank[r]
              t == TrainStep(m.state, m.it, RankArgs(r, mp.args))
              n == [m EXCEPT !.pc = "eval", !.state = t.state, !.it = t.it, !.acc = t.acc]
          IN /\ Running(r) /\ m.pc = "loop"
             /\ LoopCondition(m.state, m.it, RankArgs(r, mp.args))
             /\ mp' = [mp EXCEPT !.rank[r] = IF t.acc THEN n ELSE Arrive(n, "backward", 196)]
    /\ UNCHANGED <<trainVars, dataVars, call, dl>>

\* fit's loop ends, and main saves the final model, line 138
RankFinal ==
    /\ \E r \in Ranks :
          LET m == mp.rank[r]
          IN /\ Running(r) /\ m.pc = "loop"
             /\ ~LoopCondition(m.state, m.it, RankArgs(r, mp.args))
             /\ mp' = [mp EXCEPT !.rank[r] = Arrive([@ EXCEPT !.pc = "done"], "save", 138)]
    /\ UNCHANGED <<trainVars, dataVars, call, dl>>

\* fit, lines 226-233: validation and its barrier
RankEval ==
    /\ \E r \in Ranks :
          LET m == mp.rank[r]
          IN /\ Running(r) /\ m.pc = "eval"
             /\ mp' = [mp EXCEPT !.rank[r] =
                         IF ~EvalDue(m.acc, m.state.step_count, mp.args.eval_interval)
                         THEN [@ EXCEPT !.pc = "save"]
                         ELSE IF ValidateRaises(mp.args.val_len, mp.args.eval_max_iters)
                         THEN [@ EXCEPT !.pc = "error", !.error = "StopIteration"]
                         ELSE Arrive([@ EXCEPT !.pc = "save"], "barrier", 233)]
    /\ UNCHANGED <<trainVars, dataVars, call, dl>>

\* fit, lines 234-237: the checkpoint, saved by all ranks together
RankSave ==
    /\ \E r \in Ranks :
          LET m == mp.rank[r]
          IN /\ Running(r) /\ m.pc = "save"
             /\ mp' = [mp EXCEPT !.rank[r] =
                         IF SaveDue(m.acc, m.state.step_count, mp.args.save_interval)
                         THEN Arrive([@ EXCEPT !.pc = "loop"], "save", 237)
                         ELSE [@ EXCEPT !.pc = "loop"]]
    /\ UNCHANGED <<trainVars, dataVars, call, dl>>

\* a collective operation completes once every rank has entered the same operation
Release ==
    /\ mp.started
    /\ \A r \in Ranks : mp.rank[r].waiting # NoCollective
    /\ \A r, q \in Ranks : mp.rank[r].waiting.op = mp.rank[q].waiting.op
    /\ mp' = [mp EXCEPT !.rank = [r \in Ranks |-> [mp.rank[r] EXCEPT !.waiting = NoCollective]]]
    /\ UNCHANGED <<trainVars, dataVars, call, dl>>

NextRanks ==
    \/ RanksLaunch
    \/ RankSanity
    \/ RankResume
    \/ RankBarrier
    \/ RankTrain
    \/ RankFinal
    \/ RankEval
    \/ RankSave
    \/ Release

\* fit run by the processes of a two-device run
SpecRanks == Init /\ [][NextRanks]_vars

InFit == pc \in {"ff", "loop", "eval", "save", "final", "done"}

FitPcs == {"fit", "ff", "loop", "eval", "save", "final"}

IsStepFile(f) == f.name # FinalName

\* the number between "step-" and ".pth" in a checkpoint's name
NameNumber(name) == IntOf(SubSeq(name, 6, Len(name) - 4))

\* ---- C1 ----------------------------------------------------------------------------------
\* C1: a resumed fit whose loaded iter_num is k has called next(train_iterator) exactly k
\* times when it reaches the loop, and its iterator (position and epoch counter) is the
\* one the uninterrupted run has after k iterations; the batch and the epoch counter of
\* its first iteration are those of iteration k+1 of the uninterrupted run; and its loop
\* stops at the iteration at which the uninterrupted run stops.
C1_ResumeMatchesUninterrupted ==
    (Resuming(resume) /\ InFit) =>
        /\ (pc = "loop" /\ n_iters = 0) =>
              /\ n_next = initial_iter
              /\ state.iter_num = initial_iter
              /\ train_iterator = Uninterrupted(args, initial_iter).it
        /\ (pc = "eval" /\ n_iters = 1) =>
              /\ batch = Uninterrupted(args, initial_iter + 1).batch
              /\ train_iterator.epoch = Uninterrupted(args, initial_iter + 1).it.epoch
        /\ pc \in {"final", "done"} => state.iter_num = UninterruptedStop(args)

\* a process resumed in the middle of a pass over the data has trained on and finished
C1_Witness ==
    /\ Resuming(resume) /\ pc = "done" /\ n_iters >= 2
    /\ initial_iter > 0 /\ initial_iter % args.train_len # 0

\* ---- C2 ----------------------------------------------------------------------------------
\* C2: in every step of fit the optimizer, the scheduler and step_count advance together
\* (and the accumulated gradient is reset), by one exactly when the step is a loop
\* iteration whose new iter_num is a multiple of the accumulation count, and not at all
\* otherwise; and step_count = iter_num div accum holds throughout fit, for the run from
\* scratch and for every run resumed from a checkpoint fit wrote.
C2_StepEveryAccum ==
    /\ [](InFit => state.step_count = state.iter_num \div args.accum)
    /\ [][(pc \in FitPcs /\ pc' \in FitPcs \cup {"done"}) =>
            LET stepped == state'.iter_num = state.iter_num + 1
                           /\ state'.iter_num % args.accum = 0
                d == IF stepped THEN 1 ELSE 0
            IN /\ state'.step_count = state.step_count + d
               /\ state'.optimizer = state.optimizer + d
               /\ state'.scheduler = state.scheduler + d
               /\ state'.model = state.model + d
               /\ stepped => grads' = 0
               /\ state'.iter_num \in {state.iter_num, state.iter_num + 1}]_vars

\* a resumed run with two micro-batches per step has just taken an optimizer step
C2_Witness ==
    /\ pc = "eval" /\ ~is_accumulating /\ args.accum = 2
    /\ Resuming(resume) /\ n_iters >= 2 /\ state.step_count >= 2

\* ---- C3 ----------------------------------------------------------------------------------
\* C3: fit saves step-<step_count, 6 digits>.pth in exactly the iterations that took an
\* optimizer step and whose new step_count is a multiple of save_interval, and nowhere
\* else in fit; the file holds the state of that iteration; the step_count in a
\* checkpoint is the number in its name, its iter_num is a multiple of the accumulation
\* count, and the names a process saves are pairwise distinct.
C3_PeriodicCheckpoints ==
    /\ [](\A f \in out_dir : IsStepFile(f) =>
             /\ f.data.step_count = NameNumber(f.name)
             /\ f.name = StepName(f.data.step_count)
             /\ f.data.iter_num % args.accum = 0)
    /\ [](\A i, j \in 1..Len(writes) : writes[i] = writes[j] => i = j)
    /\ [][(pc = "save" /\ pc' = "loop") =>
            LET stepped == state.iter_num % args.accum = 0
                due == stepped /\ state.step_count % args.save_interval = 0
            IN IF due
               THEN /\ writes' = Append(writes, StepName(state.step_count))
                    /\ FileAt(out_dir', StepName(state.step_count)).data = state
                    /\ Len(Format06d(state.step_count)) = 6
               ELSE writes' = writes /\ out_dir' = out_dir]_vars
    /\ [][(pc \in FitPcs \ {"save", "final"}) => (writes' = writes /\ out_dir' = out_dir)]_vars

\* a process that accumulates two micro-batches per step has saved two checkpoints
C3_Witness ==
    /\ pc = "loop" /\ Len(writes) >= 2 /\ args.accum = 2 /\ n_iters > 2 * Len(writes)

\* ---- C4 ----------------------------------------------------------------------------------
StepFiles(dir) == {f \in dir : IsStepFile(f)}

\* the periodic checkpoint of the greatest step
GreatestStepFile(dir) ==
    CHOOSE f \in StepFiles(dir) : \A g \in StepFiles(dir) : g.data.step_count <= f.data.step_count

JustLoaded == Len(main_calls) > 0 /\ main_calls[Len(main_calls)] = "load"

\* C4: a process started with resume = True on an out_dir that holds periodic checkpoints
\* gets past the load, with main's state (model, optimizer, scheduler, iter_num,
\* step_count) read from the checkpoint of the greatest step.
C4_ResumeTrueLoadsLatest ==
    (resume_arg = AutoResume /\ JustLoaded /\ StepFiles(out_dir) # {}) =>
        /\ pc = "fit"
        /\ resume = PathResume(GreatestStepFile(out_dir).name)
        /\ state = GreatestStepFile(out_dir).data

\* ---- C5 ----------------------------------------------------------------------------------
\* C5: nothing is read from the training iterator and no iteration runs before the sanity
\* validation, which uses max_iters = 2 whatever eval.max_iters is; after it, validate is
\* called in exactly the iterations that took an optimizer step and whose step_count is a
\* multiple of eval.interval; and a checkpoint saved in an iteration in which validation
\* is due is saved after that validation has returned.
C5_ValidationSchedule ==
    /\ []((n_val = 0 /\ pc \in FitPcs) =>
            (n_next = 0 /\ n_iters = 0 /\ train_iterator = NewCycleIterator /\ pc = "fit"))
    /\ []((n_val = 1 /\ n_iters = 0) => last_val = [iter_num |-> initial_iter, max_iters |-> 2])
    /\ [][(pc = "eval" /\ pc' # "killed") =>
            LET due == state.iter_num % args.accum = 0
                       /\ state.step_count % args.eval_interval = 0
            IN IF due
               THEN \/ pc' = "error" /\ n_val' = n_val
                    \/ /\ pc' = "save" /\ n_val' = n_val + 1
                       /\ last_val' = [iter_num |-> state.iter_num, max_iters |-> args.eval_max_iters]
               ELSE pc' = "save" /\ n_val' = n_val /\ last_val' = last_val]_vars
    /\ [][(pc \in FitPcs \ {"fit", "eval"}) => n_val' = n_val]_vars
    /\ [][(pc = "save" /\ writes' # writes /\ state.step_count % args.eval_interval = 0) =>
            (last_val.iter_num = state.iter_num /\ n_val >= 2)]_vars

\* a validation and a save have both happened in the iteration just finished
C5_Witness ==
    /\ pc = "loop" /\ n_val >= 3 /\ last_val.iter_num = state.iter_num
    /\ Len(writes) >= 1 /\ writes[Len(writes)] = StepName(state.step_count)
    /\ args.accum = 2 /\ args.eval_max_iters = 1

\* ---- C6 ----------------------------------------------------------------------------------
\* C6: with max_steps a positive M, step_count stays at most M throughout fit, and no step
\* of fit taken with step_count = M starts a training iteration.
C6_MaxStepsBound ==
    /\ []((pc \in FitPcs \cup {"done"} /\ args.max_steps > 0) => state.step_count <= args.max_steps)
    /\ [][(pc \in FitPcs /\ args.max_steps > 0 /\ state.step_count = args.max_steps) =>
            (state'.iter_num = state.iter_num /\ n_iters' = n_iters
             /\ (n_next' = n_next \/ pc = "ff"))]_vars
    /\ []((pc = "done" /\ n_iters > 0) => initial_iter < state.iter_num)

\* a process resumed from a checkpoint taken at step max_steps has ended without training
C6_Witness ==
    /\ pc = "done" /\ Resuming(resume) /\ n_iters = 0
    /\ args.max_steps > 0 /\ state.step_count = args.max_steps /\ initial_iter > 0

\* ---- C7 ----------------------------------------------------------------------------------
MaxStepsUnset == args.max_steps = NoneVal

\* C7: with max_steps unset, the run from iter_num = 0 leaves the loop after exactly
\* epochs * len(train_dataloader) executions of the loop body.
C7_EpochsTimesLen ==
    (pc \in {"final", "done"} /\ ~Resuming(resume) /\ MaxStepsUnset) =>
        n_iters = args.epochs * args.train_len

\* ---- C8 ----------------------------------------------------------------------------------
\* C8: when fit has returned, the next step of the process saves lit_model_finetuned.pth
\* with the model as its only entry; it is the last name the process has saved, every
\* earlier one is a periodic checkpoint, and a finished process writes nothing more.
C8_FinalSave ==
    /\ [][pc = "final" =>
            /\ pc' = "done"
            /\ writes' = Append(writes, FinalName)
            /\ DOMAIN FileAt(out_dir', FinalName).data = {"model"}
            /\ FileAt(out_dir', FinalName).data.model = state.model]_vars
    /\ [](pc = "done" =>
            /\ writes[Len(writes)] = FinalName
            /\ \A i \in 1..(Len(writes) - 1) : writes[i] # FinalName
            /\ \E f \in out_dir : f.name = FinalName /\ DOMAIN f.data = {"model"})
    /\ [][(pc = "done" /\ pc' = "done") => out_dir' = out_dir]_vars
    /\ [](pc \in FitPcs \ {"final"} => \A i \in 1..Len(writes) : writes[i] # FinalName)

\* a run stopped by max_steps before its epochs were over, after two periodic saves
C8_Witness ==
    /\ pc = "done" /\ Len(writes) >= 3
    /\ args.max_steps > 0 /\ state.step_count = args.max_steps
    /\ train_iterator.epoch < args.epochs

\* ---- C9 ----------------------------------------------------------------------------------
Offending(a) ==
    {n \in {"max_tokens", "max_norm"} : a[n] # NoneVal}
    \cup {n \in {"checkpoint_dir", "epochs", "max_new_tokens"} : a[n] = NoneVal}

Rejected == error.type = "ValueError" /\ main_calls = <<"validate_args">>

\* C9: main ends in the ValueError of validate_args exactly when an unsupported argument
\* is set or a required one is missing; the message has one line for each offending
\* argument, the unsupported ones first; and when it is raised main has called nothing
\* else: validate_args is the first call of main.
C9_ValidateArgsFirst ==
    /\ Len(main_calls) > 0 => main_calls[1] = "validate_args"
    /\ (pc # "main" /\ pc # "idle") => (Rejected <=> Offending(args) # {})
    /\ Rejected =>
          /\ pc = "error"
          /\ Len(error.issues) = Cardinality(Offending(args))
          /\ {error.issues[i][2] : i \in 1..Len(error.issues)} = Offending(args)
          /\ \A i, j \in 1..Len(error.issues) :
                (error.issues[i][1] = "requires" /\ error.issues[j][1] = "doesn't support") => j < i
          /\ \A i \in 1..Len(error.issues) :
                error.issues[i][1] = "doesn't support" <=> error.issues[i][2] \in {"max_tokens", "max_norm"}
          /\ state = FreshState /\ out_dir = {} /\ lr_max_steps = NoneVal

\* all five arguments offend at once
C9_Witness ==
    /\ Rejected /\ Len(error.issues) = 5

\* ---- C10 ---------------------------------------------------------------------------------
Ceil(n, b) == (n + b - 1) \div b

LoaderOf(name) == IF name = "train" THEN loaders.train ELSE loaders.val

DatasetOf(name) == IF name = "train" THEN data.train_dataset ELSE data.test_dataset

\* the samples of a split: Deita's records, TinyStories' blocks of tokens
SplitSamples(name) ==
    IF data.kind = "Deita" THEN DatasetOf(name) ELSE Blocks(DatasetOf(name), data.max_seq_length)

\* what a split is made of: the formatted records, or the tokens
Contents(name) ==
    IF data.kind = "Deita"
    THEN {DatasetOf(name)[i].record : i \in 1..Len(DatasetOf(name))}
    ELSE {DatasetOf(name)[i] : i \in 1..Len(DatasetOf(name))}

SplitsDisjoint == data.stage = "setup" => Contents("train") \cap Contents("val") = {}

GivenMaxSeq == data.given_max_seq_length # NoneVal

RecordCount(n, multi) == IF multi THEN n \div 2 ELSE 1

\* the records the conversations before the c-th are to give
RECURSIVE RecordsBefore(_, _, _)
RecordsBefore(lengths, c, multi) ==
    IF c <= 1 THEN 0
    ELSE RecordsBefore(lengths, c - 1, multi) + RecordCount(lengths[c - 1], multi)

\* the list holds, in input order, for each conversation its pairs (message 2j, message 2j+1)
PairsInOrder(result, lengths, multi) ==
    /\ Len(result) = RecordsBefore(lengths, Len(lengths) + 1, multi)
    /\ \A c \in 1..Len(lengths) : \A j \in 1..RecordCount(lengths[c], multi) :
          result[RecordsBefore(lengths, c, multi) + j]
             = [instruction |-> <<c, 2 * j - 1>>, input |-> "", output |-> <<c, 2 * j>>]

\* C11 (as stated): every format_dataset call returns the records of the conversations in
\* input order, one per conversation (first and second message) in single-turn mode and
\* floor(n/2) pairs per conversation in multi-turn mode.
C11_FormatDataset ==
    call.fn # "" => call.raised = "" /\ PairsInOrder(call.result, call.lengths, call.multi)

\* C11 (amended): a format_dataset call raises IndexError exactly when it is in single-turn
\* mode and some conversation has fewer than two messages; every other call returns, in
\* input order, one record per conversation (first and second message) in single-turn mode
\* and floor(n/2) pairs (message 2j, message 2j+1) per conversation in multi-turn mode.
C11_FormatDatasetOrRaise ==
    call.fn # "" =>
       /\ call.raised = "IndexError"
             <=> (~call.multi /\ \E c \in 1..Len(call.lengths) : call.lengths[c] < 2)
       /\ call.raised \in {"", "IndexError"}
       /\ call.raised = "" => PairsInOrder(call.result, call.lengths, call.multi)

\* a multi-turn LIMA call over a short conversation, one with a trailing unpaired message
\* and a longer one has returned
C11_Witness ==
    /\ call.fn = "lima" /\ call.multi /\ call.raised = ""
    /\ \E c \in 1..Len(call.lengths) : call.lengths[c] < 2
    /\ \E c \in 1..Len(call.lengths) : call.lengths[c] = 3
    /\ \E c \in 1..Len(call.lengths) : call.lengths[c] = 4
    /\ Len(call.result) = 3

\* ---- C12 ---------------------------------------------------------------------------------
\* the call's arguments are of the kinds download_from_hub turns down
Gated(a) == Contains(a.repo_id, "meta-llama") \/ Contains(a.repo_id, "falcon-180")
TurnedDown(a) ==
    \/ a.repo_id = NoRepoId
    \/ Gated(a) /\ a.access_token \in {NoToken, ""}
    \/ a.tokenizer_only /\ a.from_safetensors

\* C12: a download_from_hub call whose arguments are rejected starts no download and
\* writes or removes no file: with repo_id None it only lists the repository ids and
\* returns; a gated repository (meta-llama, falcon-180) without access token, and
\* tokenizer_only together with from_safetensors, end in ValueError.
C12_RejectedBeforeDownload ==
    (dl.pc # "idle" /\ TurnedDown(dl.args)) =>
       /\ dl.snapshots = 0 /\ dl.directory = dl.before /\ dl.written = {} /\ dl.removed = {}
       /\ dl.pc \in {"check", "returned", "raised"}
       /\ dl.pc = "returned" => (dl.args.repo_id = NoRepoId /\ dl.listed /\ dl.error = "")
       /\ dl.pc = "raised" => (dl.args.repo_id # NoRepoId /\ dl.error = "ValueError" /\ ~dl.listed)
       /\ dl.args.repo_id = NoRepoId => dl.pc # "raised"
       /\ dl.args.repo_id # NoRepoId => dl.pc # "returned"

\* a call for a gated repository with an empty token, tokenizer_only and from_safetensors
\* unset and files already in the directory, has raised
C12_Witness ==
    /\ dl.pc = "raised" /\ dl.error = "ValueError"
    /\ Gated(dl.args) /\ dl.args.access_token = ""
    /\ ~dl.args.tokenizer_only /\ dl.before # {} /\ dl.hub # {}

\* ---- C13 ---------------------------------------------------------------------------------
\* the .bin file name of the same stem
BinOfStem(name) == SubSeq(name, 1, Len(name) - 1) \o <<".bin">>

\* C13: after download_from_hub(from_safetensors=True) has returned, the directory holds
\* no *.safetensors file and, for each one downloaded, the .bin of the same stem; a
\* .safetensors file is removed only after its .bin has been written; when a file does
\* not load, RuntimeError is raised with that file still in the directory.
C13_SafetensorsConverted ==
    /\ (dl.pc = "returned" /\ dl.args.from_safetensors /\ dl.args.repo_id # NoRepoId) =>
          /\ Glob(dl.directory) = {}
          /\ \A name \in Glob(dl.hub) : BinOfStem(name) \in dl.directory
          /\ \A name \in Glob(dl.hub) : BinOfStem(name) \in dl.written
    /\ \A name \in dl.removed : BinOfStem(name) \in dl.written
    /\ \A name \in Glob(dl.before) : name \notin dl.directory => name \in dl.removed
    /\ (dl.pc = "raised" /\ dl.error = "RuntimeError") =>
          /\ dl.at \in dl.corrupt /\ dl.at \in dl.directory
          /\ BinOfStem(dl.at) \notin dl.written

\* a call has converted two downloaded shards and returned
C13_Witness ==
    /\ dl.pc = "returned" /\ dl.args.from_safetensors /\ dl.snapshots = 1
    /\ Cardinality(dl.removed) >= 2 /\ Cardinality(Glob(dl.hub)) >= 2

\* ---- C15 ---------------------------------------------------------------------------------
\* C15: in a run started from step 0, step_count never exceeds the horizon lr_max_steps
\* that main gave the scheduler, and the scheduler has been stepped step_count times.
C15_StepsWithinHorizon ==
    (pc \in FitPcs \cup {"final", "done"} /\ ~Resuming(resume)) =>
        /\ lr_max_steps = LrMaxSteps(args)
        /\ state.step_count <= lr_max_steps
        /\ state.scheduler = state.step_count

\* ---- C16 ---------------------------------------------------------------------------------
\* C16: when fit's loop has exited, iter_num is a multiple of the accumulation count and
\* no back-propagated micro-batch is left without an optimizer step.
C16_NoGradientLeft ==
    pc \in {"final", "done"} => (state.iter_num % args.accum = 0 /\ grads = 0)

\* ---- C17 ---------------------------------------------------------------------------------
\* C17: with a validation dataloader that is not empty, every validate call returns: no
\* process ends in the StopIteration of next(val_iterator), neither in the sanity check
\* (max_iters = 2) nor in a periodic validation (eval.max_iters).
C17_ValidateReturns ==
    (pc # "idle" /\ args.val_len >= 1) => ~(pc = "error" /\ error.type = "StopIteration")

\* ---- C18 ---------------------------------------------------------------------------------
IsPrefix(s, t) == Len(s) <= Len(t) /\ SubSeq(t, 1, Len(s)) = s

\* the rank has left fit and main, normally or by an exception
Ended(m) == m.waiting = NoCollective /\ m.pc \in {"done", "error"}

====
